---------------------------- MODULE Spec2Model ----------------------------
(***************************************************************************)
(* exifdate_folder.py: rename images (and their RAW/ORF siblings) to      *)
(* YYYYMMDD_HHMMSS.ext from their EXIF date.                               *)
(*                                                                         *)
(* Strings are sequences of one-character strings, so that the regular     *)
(* expressions, os.path functions and the strptime/strftime conversion of  *)
(* the script are computed character by character.  The filesystem holds   *)
(* regular files and directories of a case-sensitive POSIX filesystem.     *)
(***************************************************************************)
EXTENDS Integers, Sequences, FiniteSets, TLC

(***************************************************************************)
(* Characters and str methods                                              *)
(***************************************************************************)
DigitChars == <<"0", "1", "2", "3", "4", "5", "6", "7", "8", "9">>

UpperChars == <<"A", "B", "C", "D", "E", "F", "G", "H", "I", "J", "K", "L", "M",
                "N", "O", "P", "Q", "R", "S", "T", "U", "V", "W", "X", "Y", "Z">>

LowerChars == <<"a", "b", "c", "d", "e", "f", "g", "h", "i", "j", "k", "l", "m",
                "n", "o", "p", "q", "r", "s", "t", "u", "v", "w", "x", "y", "z">>

IsDigit(c) == \E i \in DOMAIN DigitChars : DigitChars[i] = c

DigitVal(c) == (CHOOSE i \in DOMAIN DigitChars : DigitChars[i] = c) - 1

IsUpper(c) == \E i \in DOMAIN UpperChars : UpperChars[i] = c

IsLower(c) == \E i \in DOMAIN LowerChars : LowerChars[i] = c

\* \w of the re module, on the ASCII characters of the model
IsWord(c) == IsDigit(c) \/ IsUpper(c) \/ IsLower(c) \/ c = "_"

\* \s of the re module, on the ASCII characters of the model
IsSpace(c) == c = " "

lower_char(c) ==
    IF IsUpper(c) THEN LowerChars[CHOOSE i \in DOMAIN UpperChars : UpperChars[i] = c]
    ELSE c

\* str.lower()
lower(s) == [i \in 1..Len(s) |-> lower_char(s[i])]

\* s[i] with "" past the end (no character)
At(s, i) == IF i \in 1..Len(s) THEN s[i] ELSE ""

\* str.rfind(c) + 1: the 1-based position of the last c, 0 when there is none
RFind(s, c) ==
    IF \E i \in 1..Len(s) : s[i] = c
    THEN CHOOSE i \in 1..Len(s) : s[i] = c /\ \A j \in (i + 1)..Len(s) : s[j] # c
    ELSE 0

\* str.startswith / str.endswith
StartsWith(s, p) == Len(p) <= Len(s) /\ SubSeq(s, 1, Len(p)) = p

EndsWith(s, p) == Len(p) <= Len(s) /\ SubSeq(s, Len(s) - Len(p) + 1, Len(s)) = p

\* str.rstrip("/")
RECURSIVE RStripSep(_)
RStripSep(s) ==
    IF Len(s) > 0 /\ s[Len(s)] = "/" THEN RStripSep(SubSeq(s, 1, Len(s) - 1)) ELSE s

\* "{0}".format(n) for an integer n >= 0
RECURSIVE IntToStr(_)
IntToStr(n) ==
    IF n < 10 THEN <<DigitChars[n + 1]>>
    ELSE IntToStr(n \div 10) \o <<DigitChars[(n % 10) + 1]>>

(***************************************************************************)
(* Module-level patterns and lists                                         *)
(***************************************************************************)
\* re.compile(r".*\.(jpe?g|png|gif)$", re.IGNORECASE).match
image_pattern(s) ==
    LET l == lower(s) IN
    \/ EndsWith(l, <<".", "j", "p", "g">>)
    \/ EndsWith(l, <<".", "j", "p", "e", "g">>)
    \/ EndsWith(l, <<".", "p", "n", "g">>)
    \/ EndsWith(l, <<".", "g", "i", "f">>)

\* re.compile(r"^\d{4}:\d{2}:\d{2} \d{2}:\d{2}:\d{2}$").match
exifdate_pattern(s) ==
    /\ Len(s) = 19
    /\ \A i \in {5, 8, 14, 17} : s[i] = ":"
    /\ s[11] = " "
    /\ \A i \in (1..19) \ {5, 8, 11, 14, 17} : IsDigit(s[i])

\* re.compile(r"^\d{4}\d{2}\d{2}_\d{2}\d{2}\d{2}\.\w+$").match
output_pattern(s) ==
    /\ Len(s) >= 17
    /\ \A i \in 1..8 : IsDigit(s[i])
    /\ s[9] = "_"
    /\ \A i \in 10..15 : IsDigit(s[i])
    /\ s[16] = "."
    /\ \A i \in 17..Len(s) : IsWord(s[i])

date_tags == <<"EXIF DateTimeOriginal", "EXIF DateTimeDigitized", "Image DateTime">>

possible_raw_extensions == << <<"O", "R", "F">>, <<"R", "A", "W">> >>

(***************************************************************************)
(* datetime.datetime.strptime(exifdate, "%Y:%m:%d %H:%M:%S")               *)
(*                  .strftime("%Y%m%d_%H%M%S")                             *)
(* Each directive is the regular expression _strptime gives it; the        *)
(* separators are never digits, so taking the first alternative that       *)
(* matches is what the backtracking matcher ends with.                     *)
(***************************************************************************)
\* number of characters the directive matches at position i (0: no match)
MatchDirective(d, s, i) ==
    LET a == At(s, i)
        b == At(s, i + 1)
        nz(c) == IsDigit(c) /\ c # "0"
    IN CASE d = "Y" -> IF \A k \in 0..3 : IsDigit(At(s, i + k)) THEN 4 ELSE 0
         [] d = "m" -> IF a = "1" /\ b \in {"0", "1", "2"} THEN 2
                       ELSE IF a = "0" /\ nz(b) THEN 2
                       ELSE IF nz(a) THEN 1 ELSE 0
         [] d = "d" -> IF a = "3" /\ b \in {"0", "1"} THEN 2
                       ELSE IF a \in {"1", "2"} /\ IsDigit(b) THEN 2
                       ELSE IF a = "0" /\ nz(b) THEN 2
                       ELSE IF nz(a) THEN 1
                       ELSE IF a = " " /\ nz(b) THEN 2 ELSE 0
         [] d = "H" -> IF a = "2" /\ b \in {"0", "1", "2", "3"} THEN 2
                       ELSE IF a \in {"0", "1"} /\ IsDigit(b) THEN 2
                       ELSE IF IsDigit(a) THEN 1 ELSE 0
         [] d = "M" -> IF a \in {"0", "1", "2", "3", "4", "5"} /\ IsDigit(b) THEN 2
                       ELSE IF IsDigit(a) THEN 1 ELSE 0
         [] d = "S" -> IF a = "6" /\ b \in {"0", "1"} THEN 2
                       ELSE IF a \in {"0", "1", "2", "3", "4", "5"} /\ IsDigit(b) THEN 2
                       ELSE IF IsDigit(a) THEN 1 ELSE 0
         [] d = ":" -> IF a = ":" THEN 1 ELSE 0
         \* a blank of the format is \s+
         [] d = " " -> IF ~IsSpace(a) THEN 0
                       ELSE CHOOSE n \in 1..Len(s) :
                              /\ \A k \in 0..(n - 1) : IsSpace(At(s, i + k))
                              /\ ~IsSpace(At(s, i + n))

\* int() of the matched text (a leading blank of %d is skipped)
RECURSIVE ToInt(_)
ToInt(s) ==
    IF s = <<>> THEN 0
    ELSE IF ~IsDigit(s[Len(s)]) THEN ToInt(SubSeq(s, 1, Len(s) - 1))
    ELSE 10 * ToInt(SubSeq(s, 1, Len(s) - 1)) + DigitVal(s[Len(s)])

srcformat == <<"Y", ":", "m", ":", "d", " ", "H", ":", "M", ":", "S">>

\* the fields matched so far: [ok, pos, val], val the directive values in order
RECURSIVE ParseFrom(_, _, _, _)
ParseFrom(s, fmt, i, vals) ==
    IF fmt = <<>> THEN [ok |-> i = Len(s) + 1, vals |-> vals]
    ELSE LET n == MatchDirective(Head(fmt), s, i) IN
         IF n = 0 THEN [ok |-> FALSE, vals |-> vals]
         ELSE ParseFrom(s, Tail(fmt), i + n,
                        IF Head(fmt) \in {":", " "} THEN vals
                        ELSE Append(vals, ToInt(SubSeq(s, i, i + n - 1))))

IsLeap(y) == (y % 4 = 0 /\ y % 100 # 0) \/ y % 400 = 0

DaysInMonth(y, m) ==
    IF m = 2 THEN (IF IsLeap(y) THEN 29 ELSE 28)
    ELSE IF m \in {4, 6, 9, 11} THEN 30 ELSE 31

Pad(n, width) ==
    LET t == IntToStr(n) IN [i \in 1..(width - Len(t)) |-> "0"] \o t

\* [ok |-> FALSE] is the ValueError of strptime; years are formatted on 4 digits
\* (the values of the model have a year of 0 or of 4 significant digits)
strptime_strftime(exifdate) ==
    LET p == ParseFrom(exifdate, srcformat, 1, <<>>) IN
    IF ~p.ok THEN [ok |-> FALSE, out |-> <<>>]
    ELSE LET v == p.vals IN
         IF v[1] < 1 \/ v[3] > DaysInMonth(v[1], v[2]) \/ v[6] > 59
         THEN [ok |-> FALSE, out |-> <<>>]
         ELSE [ok |-> TRUE,
               out |-> Pad(v[1], 4) \o Pad(v[2], 2) \o Pad(v[3], 2) \o <<"_">>
                       \o Pad(v[4], 2) \o Pad(v[5], 2) \o Pad(v[6], 2)]

(***************************************************************************)
(* os.path (posixpath)                                                     *)
(***************************************************************************)
\* os.path.join(a, b)
join(a, b) ==
    IF StartsWith(b, <<"/">>) THEN b
    ELSE IF a = <<>> \/ EndsWith(a, <<"/">>) THEN a \o b
    ELSE a \o <<"/">> \o b

\* os.path.split(p)
split(p) ==
    LET i == RFind(p, "/")
        head == SubSeq(p, 1, i)
        tail == SubSeq(p, i + 1, Len(p))
    IN <<IF head # <<>> /\ \E k \in 1..Len(head) : head[k] # "/"
         THEN RStripSep(head) ELSE head,
         tail>>

dirname(p) == split(p)[1]

basename(p) == split(p)[2]

\* os.path.splitext(p)
splitext(p) ==
    LET sepIndex == RFind(p, "/")
        dotIndex == RFind(p, ".")
    IN IF dotIndex > sepIndex
          /\ \E k \in (sepIndex + 1)..(dotIndex - 1) : p[k] # "."
       THEN <<SubSeq(p, 1, dotIndex - 1), SubSeq(p, dotIndex, Len(p))>>
       ELSE <<p, <<>>>>

\* the components of a path, split at "/"
RECURSIVE Components(_)
Components(p) ==
    IF p = <<>> THEN <<>>
    ELSE LET i == IF \E k \in 1..Len(p) : p[k] = "/"
                  THEN CHOOSE k \in 1..Len(p) :
                         p[k] = "/" /\ \A j \in 1..(k - 1) : p[j] # "/"
                  ELSE Len(p) + 1
         IN <<SubSeq(p, 1, i - 1)>> \o Components(SubSeq(p, i + 1, Len(p)))

\* os.path.normpath of an absolute path: the components kept, in order
RECURSIVE NormComps(_, _)
NormComps(comps, acc) ==
    IF comps = <<>> THEN acc
    ELSE LET c == Head(comps) IN
         IF c = <<>> \/ c = <<".">> THEN NormComps(Tail(comps), acc)
         ELSE IF c = <<".", ".">>
         THEN NormComps(Tail(comps),
                        IF acc = <<>> THEN acc ELSE SubSeq(acc, 1, Len(acc) - 1))
         ELSE NormComps(Tail(comps), Append(acc, c))

RECURSIVE JoinComps(_)
JoinComps(comps) ==
    IF comps = <<>> THEN <<>> ELSE <<"/">> \o Head(comps) \o JoinComps(Tail(comps))

\* the current working directory of the process
cwd == <<"/", "p">>

\* os.path.abspath(p)
abspath(p) ==
    LET n == NormComps(Components(join(cwd, p)), <<>>) IN
    IF n = <<>> THEN <<"/">> ELSE JoinComps(n)


(***************************************************************************)
(* The filesystem: a set of entries [dir, name, kind, id, tags].  dir is   *)
(* the absolute path of the containing directory, id identifies the entry  *)
(* (its inode and content) across renames, tags is what                    *)
(* exifread.process_file gives for the content.                            *)
(***************************************************************************)
PathOf(e) == join(e.dir, e.name)

\* the entries at path p (none or one)
EntriesAt(fsys, p) == LET a == abspath(p) IN {e \in fsys : PathOf(e) = a}

\* os.path.exists(p)
exists(fsys, p) == EntriesAt(fsys, p) # {}

\* os.path.isdir(p)
isdir(fsys, p) == \E e \in EntriesAt(fsys, p) : e.kind = "dir"

\* os.path.isfile(p)
isfile(fsys, p) == \E e \in EntriesAt(fsys, p) : e.kind = "file"

\* the order in which a directory lists its entries is the filesystem's own:
\* by id, ascending or descending
RECURSIVE SortIds(_, _)
SortIds(S, rev) ==
    IF S = {} THEN <<>>
    ELSE LET m == CHOOSE x \in S : \A y \in S : IF rev THEN y <= x ELSE x <= y
         IN <<m>> \o SortIds(S \ {m}, rev)

\* os.listdir(d)
listdir(fsys, rev, d) ==
    LET a == abspath(d)
        here == {e \in fsys : e.dir = a}
        order == SortIds({e.id : e \in here}, rev)
    IN [i \in 1..Len(order) |-> (CHOOSE e \in here : e.id = order[i]).name]

\* os.rename(src, dst) on POSIX: [ok |-> FALSE] is the OSError
os_rename(fsys, src, dst) ==
    LET s == EntriesAt(fsys, src)
        d == EntriesAt(fsys, dst)
    IN IF s = {} \/ ~isdir(fsys \cup {[dir |-> <<>>, name |-> <<"/">>, kind |-> "dir",
                                       id |-> 0, tags |-> <<>>]}, dirname(abspath(dst)))
       THEN [ok |-> FALSE, fs |-> fsys]
       ELSE LET e == CHOOSE x \in s : TRUE IN
            IF \E x \in d : x.kind # e.kind \/ x.kind = "dir"
            THEN [ok |-> FALSE, fs |-> fsys]
            ELSE [ok |-> TRUE,
                  fs |-> (fsys \ (s \cup d))
                         \cup {[e EXCEPT !.dir = dirname(abspath(dst)),
                                         !.name = basename(abspath(dst))]}]

(***************************************************************************)
(* buildFileList, getfile_insensitive and the steps of renameImgToExif     *)
(***************************************************************************)
\* os.walk(walk_dir), top down, with the records buildFileList appends
RECURSIVE buildFileList(_, _, _)
RECURSIVE WalkSubdirs(_, _, _, _)
buildFileList(fsys, rev, walk_dir) ==
    LET names == listdir(fsys, rev, walk_dir)
        files == SelectSeq(names, LAMBDA n : ~isdir(fsys, join(walk_dir, n)))
        subdirs == SelectSeq(names, LAMBDA n : isdir(fsys, join(walk_dir, n)))
        matching == SelectSeq(files, image_pattern)
    IN [i \in 1..Len(matching) |->
           [filename |-> matching[i], folder |-> walk_dir,
            fullpath |-> join(walk_dir, matching[i])]]
       \o WalkSubdirs(fsys, rev, walk_dir, subdirs)

WalkSubdirs(fsys, rev, folder, subdirs) ==
    IF subdirs = <<>> THEN <<>>
    ELSE buildFileList(fsys, rev, join(folder, Head(subdirs)))
         \o WalkSubdirs(fsys, rev, folder, Tail(subdirs))

\* the value standing for Python's None
None == <<>>

getfile_insensitive(fsys, rev, path) ==
    LET sp == split(path)
        directory == IF sp[1] = <<>> THEN <<".">> ELSE sp[1]
        filename == lower(sp[2])
        names == listdir(fsys, rev, directory)
        hits == {i \in 1..Len(names) :
                    isfile(fsys, join(directory, names[i])) /\ lower(names[i]) = filename}
    IN IF hits = {} THEN None
       ELSE join(directory, names[CHOOSE i \in hits : \A j \in hits : i <= j])

\* lines 89-101: the scan of date_tags
RECURSIVE ScanTags(_, _, _)
ScanTags(tags, i, st) ==
    IF i > Len(date_tags) THEN st
    ELSE LET tag == date_tags[i] IN
         IF tag \in DOMAIN tags
         THEN LET found == [foundKey |-> TRUE, exifdate |-> tags[tag]] IN
              \* "continue" is the last statement of the loop body: both ways go on
              IF ~exifdate_pattern(found.exifdate)
              THEN ScanTags(tags, i + 1, found)
              ELSE ScanTags(tags, i + 1, found)
         ELSE ScanTags(tags, i + 1, st)

\* the folder left out of the target: a name relative to the working directory
TargetNameNoFolder(folder, filedate, suffix, ext) ==
    IF suffix = 0 THEN filedate \o ext
    ELSE filedate \o <<"_">> \o IntToStr(suffix) \o ext

\* lines 113, 118, 146, 148, 152: the candidate target for a suffix
TargetName(folder, filedate, suffix, ext) ==
    IF suffix = 0 THEN join(folder, filedate) \o ext
    ELSE join(folder, filedate) \o <<"_">> \o IntToStr(suffix) \o ext

\* a collision loop left out: the first candidate is taken as it is
ResolveTargetUnchecked(fsys, folder, filedate, suffix, ext) ==
    [suffix |-> suffix, name |-> TargetName(folder, filedate, suffix, ext)]

\* lines 115-118 and 145-152: the collision loop, from a starting suffix
RECURSIVE ResolveTarget(_, _, _, _, _)
ResolveTarget(fsys, folder, filedate, suffix, ext) ==
    LET name == TargetName(folder, filedate, suffix, ext) IN
    IF exists(fsys, name) \/ isdir(fsys, name)
    THEN ResolveTarget(fsys, folder, filedate, suffix + 1, ext)
    ELSE [suffix |-> suffix, name |-> name]

\* the raw search restarted from no suffix
RawStartSuffixZero(suffix) == 0

\* lines 145-148: the raw target starts from the suffix found for the image
RawStartSuffix(suffix) == suffix

\* lines 131-137: the first raw extension for which a file is found
RECURSIVE FindRaw(_, _, _, _)
FindRaw(fsys, rev, filename_wo_ext, i) ==
    IF i > Len(possible_raw_extensions) THEN None
    ELSE LET raw_file == getfile_insensitive(fsys, rev,
                             filename_wo_ext \o <<".">> \o possible_raw_extensions[i])
         IN IF raw_file = None THEN FindRaw(fsys, rev, filename_wo_ext, i + 1)
            ELSE raw_file

(***************************************************************************)
(* Inputs: EXIF values, file names, the initial tree and the command line  *)
(***************************************************************************)
\* "2020:02:16 13:19:03"
V1 == <<"2", "0", "2", "0", ":", "0", "2", ":", "1", "6", " ",
        "1", "3", ":", "1", "9", ":", "0", "3">>

\* "2021:12:31 23:59:59"
V2 == <<"2", "0", "2", "1", ":", "1", "2", ":", "3", "1", " ",
        "2", "3", ":", "5", "9", ":", "5", "9">>

\* "2020-02-16 13:19:03": not in the EXIF form, and no date for strptime
VDash == <<"2", "0", "2", "0", "-", "0", "2", "-", "1", "6", " ",
           "1", "3", ":", "1", "9", ":", "0", "3">>

\* "2019:7:04 08:09:10": not in the EXIF form, yet a date for strptime
VShort == <<"2", "0", "1", "9", ":", "7", ":", "0", "4", " ",
            "0", "8", ":", "0", "9", ":", "1", "0">>

\* "0000:00:00 00:00:00": in the EXIF form (a camera whose clock was never set)
VZero == <<"0", "0", "0", "0", ":", "0", "0", ":", "0", "0", " ",
           "0", "0", ":", "0", "0", ":", "0", "0">>

\* "20200216_131903": the file date of V1
T1 == <<"2", "0", "2", "0", "0", "2", "1", "6", "_", "1", "3", "1", "9", "0", "3">>

NoTags == <<>>

OnlyMake == [t \in {"Image Make"} |-> <<"X">>]

Orig(v) == [t \in {"EXIF DateTimeOriginal"} |-> v]

Tags2(t1, v1, t2, v2) == [t \in {t1, t2} |-> IF t = t1 THEN v1 ELSE v2]

\* the metadata the image a.JPG may carry
TagChoices ==
    { NoTags, OnlyMake, Orig(V1), Orig(VDash), Orig(VShort),
      [t \in {"Image DateTime"} |-> VZero],
      Tags2("EXIF DateTimeOriginal", V1, "Image DateTime", V2),
      Tags2("EXIF DateTimeOriginal", V1, "EXIF DateTimeDigitized", VDash),
      Tags2("EXIF DateTimeOriginal", V1, "Image DateTime", VShort) }

Dot(base, ext) == base \o <<".">> \o ext

JPGu == <<"J", "P", "G">>

jpg == <<"j", "p", "g">>

orf == <<"o", "r", "f">>

DirP == <<"/", "p">>

DirS == <<"/", "p", "/", "s">>

File(d, n, i, t) == [dir |-> d, name |-> n, kind |-> "file", id |-> i, tags |-> t]

Dir(d, n, i) == [dir |-> d, name |-> n, kind |-> "dir", id |-> i, tags |-> NoTags]

\* always there: /p, /p/s, /p/n.txt, /p/a.JPG (its tags chosen), /p/s/c.jpg
BaseTree(t) ==
    { Dir(<<"/">>, <<"p">>, 1), Dir(DirP, <<"s">>, 2),
      File(DirP, Dot(<<"n">>, <<"t", "x", "t">>), 3, NoTags),
      File(DirP, Dot(<<"a">>, JPGu), 4, t),
      File(DirS, Dot(<<"c">>, jpg), 5, Orig(V1)) }

\* the entries a tree may hold besides
Extras ==
    { File(DirP, Dot(<<"b">>, jpg), 6, Orig(V1)),
      File(DirP, Dot(<<"a">>, <<"O", "R", "F">>), 7, NoTags),
      File(DirP, Dot(<<"A">>, orf), 8, NoTags),
      File(DirP, Dot(<<"a">>, <<"R", "a", "w">>), 9, NoTags),
      File(DirP, Dot(T1, jpg), 10, Orig(V1)),
      Dir(DirP, Dot(T1, jpg), 10),
      File(DirP, Dot(T1 \o <<"_", "1">>, jpg), 11, Orig(V1)),
      File(DirP, Dot(T1, orf), 12, NoTags),
      File(DirS, Dot(T1, jpg), 13, NoTags),
      File(DirP, Dot(<<"d">>, jpg), 14, Orig(V1)) }

\* how far a tree is from the plain one (a.JPG dated V1, no extra entry) at most:
\* one for each extra entry, one for other metadata in a.JPG
MaxVariations == 2

\* how many renames the operating system refuses in one execution at most
MaxRenameFailures == 1

\* the sets of extra entries a tree may hold when it has n variations left
ExtraSets(n) ==
    {Y \in SUBSET Extras : /\ Cardinality(Y) <= n
                           /\ Cardinality({e.id : e \in Y}) = Cardinality(Y)}

InitialTrees ==
    UNION { {BaseTree(t) \cup X :
                X \in ExtraSets(MaxVariations - (IF t = Orig(V1) THEN 0 ELSE 1))} :
            t \in TagChoices }

\* sys.argv[1:]
CommandLines ==
    { <<>>,
      << <<".">> >>, << <<"s">> >>,
      << Dot(<<"a">>, JPGu) >>, << Dot(T1, jpg) >>,
      << <<"s", "/">> \o Dot(T1, jpg) >>, << DirP \o <<"/">> \o Dot(T1, jpg) >>,
      << <<"s", "/">> \o Dot(<<"c">>, jpg) >>,
      << Dot(<<"n">>, <<"t", "x", "t">>) >>, << <<"z", "z">> >> }

\* what the user may type at the prompt
Answers == { <<"Y">>, <<"n">>, <<"x">> }

(***************************************************************************)
(* State                                                                   *)
(***************************************************************************)
VARIABLES
    argv,       \* sys.argv[1:]
    fs,         \* the filesystem
    listRev,    \* the listing order of the filesystem
    pc,         \* where the process is: main, confirm, loop, rename_img, rename_raw, exit
    outcome,    \* how the process ended (running while it has not)
    mode,       \* "dir" or "file": the branch main took
    filelist,   \* main: filelist
    idx,        \* main: the position of the for loop in filelist
    pending,    \* main: pending
    loc,        \* renameImgToExif: filedate, suffix, new_filename, filename_wo_ext
    failures,   \* renames refused so far
    run,        \* which execution this is: the first or the second
    fs0,        \* history: the initial filesystem
    renames,    \* history: the os.rename calls made, in order
    attempts    \* history: the candidates renameImgToExif was called on, this execution

vars == <<argv, fs, listRev, pc, outcome, mode, filelist, idx, pending, loc,
          failures, run, fs0, renames, attempts>>

NoLoc == [filedate |-> <<>>, suffix |-> 0, new_filename |-> <<>>,
          filename_wo_ext |-> <<>>]

Init ==
    /\ argv \in CommandLines
    /\ fs \in InitialTrees
    /\ listRev \in BOOLEAN
    /\ pc = "main"
    /\ outcome = "running"
    /\ mode = "none"
    /\ filelist = <<>>
    /\ idx = 1
    /\ pending = <<>>
    /\ loc = NoLoc
    /\ failures = 0
    /\ run = 1
    /\ fs0 = fs
    /\ renames = <<>>
    /\ attempts = <<>>

\* the exit status of the process
ExitStatus(o) ==
    CASE o = "usage" -> 1
      [] o = "not_image" -> 2
      [] o = "crashed" -> 1
      [] OTHER -> 0

Exit(o) == pc' = "exit" /\ outcome' = o

(***************************************************************************)
(* main                                                                    *)
(***************************************************************************)
\* lines 205-227 and 234-236 when no prompt is shown
MainArgs ==
    /\ pc = "main"
    /\ UNCHANGED <<argv, fs, listRev, filelist, idx, pending, loc, failures, run,
                   fs0, renames, attempts>>
    /\ IF Len(argv) < 1 THEN Exit("usage") /\ UNCHANGED mode
       ELSE LET param == argv[1] IN
            IF isdir(fs, param) THEN pc' = "confirm" /\ mode' = "dir" /\ UNCHANGED outcome
            ELSE IF isfile(fs, param)
            THEN IF ~image_pattern(param) THEN Exit("not_image") /\ UNCHANGED mode
                 ELSE pc' = "confirm" /\ mode' = "file" /\ UNCHANGED outcome
            ELSE Exit("aborted") /\ UNCHANGED mode

\* lines 217-221 or 228-232, then 234-240: the prompt, answered
Confirm(answer) ==
    /\ pc = "confirm"
    /\ UNCHANGED <<argv, fs, listRev, mode, idx, pending, loc, failures, run,
                   fs0, renames, attempts>>
    /\ IF lower(answer) \notin {<<"y">>, <<"n">>}
       THEN UNCHANGED <<pc, outcome, filelist>>
       ELSE IF lower(answer) # <<"y">>
       THEN Exit("aborted") /\ UNCHANGED filelist
       ELSE LET param == argv[1]
                list == IF mode = "dir"
                        THEN buildFileList(fs, listRev, abspath(param))
                        ELSE << [filename |-> param, folder |-> dirname(param),
                                 fullpath |-> abspath(param)] >>
            IN /\ filelist' = list
               /\ IF Len(list) = 0 THEN Exit("no_images")
                  ELSE pc' = "loop" /\ UNCHANGED outcome

(***************************************************************************)
(* renameImgToExif, in three steps, and the for loop of main               *)
(***************************************************************************)
\* line 250-251 after a call that returned retcode, and the next iteration
Return(retcode) ==
    /\ pending' = IF retcode THEN pending ELSE Append(pending, filelist[idx].fullpath)
    /\ idx' = idx + 1
    /\ pc' = "loop"
    /\ loc' = NoLoc
    /\ UNCHANGED outcome

\* an exception nothing catches: the traceback ends the process
Crash == Exit("crashed") /\ UNCHANGED <<pending, idx, loc>>

\* lines 244-248 and 65-118: up to the target name of the image
ProcessFile ==
    /\ pc = "loop"
    /\ idx <= Len(filelist)
    /\ UNCHANGED <<argv, fs, listRev, mode, filelist, failures, run, fs0,
                   renames>>
    /\ attempts' = Append(attempts, idx)
    /\ LET filename == filelist[idx].filename
           folder == filelist[idx].folder
           fullpath == filelist[idx].fullpath
       IN IF output_pattern(filename) THEN Return(TRUE)
          ELSE IF ~isfile(fs, fullpath) THEN Crash
          ELSE LET tags == (CHOOSE e \in EntriesAt(fs, fullpath) : TRUE).tags IN
               IF DOMAIN tags = {} THEN Return(FALSE)
               ELSE LET scan == ScanTags(tags, 1, [foundKey |-> FALSE, exifdate |-> <<>>])
                    IN IF ~scan.foundKey THEN Return(FALSE)
                       ELSE LET conv == strptime_strftime(scan.exifdate) IN
                            IF ~conv.ok THEN Crash
                            ELSE LET sp == splitext(fullpath)
                                     target == ResolveTarget(fs, folder, conv.out, 0,
                                                             lower(sp[2]))
                                 IN /\ loc' = [filedate |-> conv.out,
                                               suffix |-> target.suffix,
                                               new_filename |-> target.name,
                                               filename_wo_ext |-> sp[1]]
                                    /\ pc' = "rename_img"
                                    /\ UNCHANGED <<pending, idx, outcome>>

\* the for loop is over: main returns
Finish ==
    /\ pc = "loop"
    /\ idx > Len(filelist)
    /\ Exit("finished")
    /\ UNCHANGED <<argv, fs, listRev, mode, filelist, idx, pending, loc, failures,
                   run, fs0, renames, attempts>>

\* the call of os.rename the operating system may refuse (permissions)
TryRename(kind, src, dst, refused) ==
    LET r == IF refused THEN [ok |-> FALSE, fs |-> fs] ELSE os_rename(fs, src, dst) IN
    /\ fs' = r.fs
    /\ failures' = IF refused THEN failures + 1 ELSE failures
    /\ renames' = Append(renames,
                     [run |-> run, idx |-> idx, kind |-> kind,
                      src |-> abspath(src), dst |-> abspath(dst), ok |-> r.ok,
                      free |-> ~exists(fs, dst),
                      id |-> IF exists(fs, src)
                             THEN (CHOOSE e \in EntriesAt(fs, src) : TRUE).id ELSE 0])

\* the raw search entered although the image was not renamed
AfterImageRenameAlways(ok) == "rename_raw"

\* lines 122-128: "except: ... return False", else on to the raw file
AfterImageRename(ok) == IF ok THEN "rename_raw" ELSE "loop"

\* lines 122-128: the rename of the image
RenameImage(refused) ==
    /\ pc = "rename_img"
    /\ refused => failures < MaxRenameFailures
    /\ UNCHANGED <<argv, listRev, mode, filelist, run, fs0, attempts>>
    /\ TryRename("img", filelist[idx].fullpath, loc.new_filename, refused)
    /\ IF AfterImageRename(renames'[Len(renames')].ok) = "loop" THEN Return(FALSE)
       ELSE /\ pc' = "rename_raw"
            /\ UNCHANGED <<pending, idx, loc, outcome>>

\* lines 130-160: the raw sibling
RenameRaw(refused) ==
    /\ pc = "rename_raw"
    /\ refused => failures < MaxRenameFailures
    /\ UNCHANGED <<argv, listRev, mode, filelist, run, fs0, attempts>>
    /\ LET raw_file == FindRaw(fs, listRev, loc.filename_wo_ext, 1) IN
       IF raw_file = None
       THEN /\ ~refused
            /\ Return(TRUE)
            /\ UNCHANGED <<fs, failures, renames>>
       ELSE LET target == ResolveTarget(fs, filelist[idx].folder, loc.filedate,
                                        RawStartSuffix(loc.suffix),
                                        lower(splitext(raw_file)[2]))
            IN /\ TryRename("raw", raw_file, target.name, refused)
               /\ Return(renames'[Len(renames')].ok)

\* the tool run once more, with the same command line, on the tree as it is
Rerun ==
    /\ pc = "exit"
    /\ outcome = "finished"
    /\ run = 1
    /\ run' = run + 1
    /\ pc' = "main"
    /\ outcome' = "running"
    /\ mode' = "none"
    /\ filelist' = <<>>
    /\ idx' = 1
    /\ pending' = <<>>
    /\ loc' = NoLoc
    /\ attempts' = <<>>
    /\ UNCHANGED <<argv, fs, listRev, failures, fs0, renames>>

Next ==
    \/ MainArgs
    \/ \E answer \in Answers : Confirm(answer)
    \/ ProcessFile
    \/ Finish
    \/ \E refused \in BOOLEAN : RenameImage(refused)
    \/ \E refused \in BOOLEAN : RenameRaw(refused)
    \/ Rerun

Spec == Init /\ [][Next]_vars

(***************************************************************************)
(* Vocabulary of the properties                                            *)
(***************************************************************************)
\* the n-th name of the sequence T.ext, T_1.ext, T_2.ext, ... (ext with its dot)
SeqName(T, n, ext) == IF n = 0 THEN T \o ext ELSE T \o <<"_">> \o IntToStr(n) \o ext

\* the names taken in directory d (an absolute path)
NamesIn(fsys, d) == {e.name : e \in {x \in fsys : x.dir = d}}

\* the least n whose name of the sequence is not taken in d, from n0 on
FirstFreeFrom(fsys, d, T, n0, ext) ==
    CHOOSE n \in n0..(n0 + Cardinality(fsys)) :
        /\ SeqName(T, n, ext) \notin NamesIn(fsys, d)
        /\ \A m \in n0..(n - 1) : SeqName(T, m, ext) \in NamesIn(fsys, d)

\* the extension of a file name, from its last dot on, in lower case
LowerExt(name) ==
    IF RFind(name, ".") = 0 THEN <<>> ELSE lower(SubSeq(name, RFind(name, "."), Len(name)))

\* a file name without its extension
Stem(name) == SubSeq(name, 1, RFind(name, ".") - 1)

\* the entry that has identity i
EntryOf(fsys, i) == CHOOSE e \in fsys : e.id = i

Logged == {renames[k] : k \in 1..Len(renames)}

LastRename == renames[Len(renames)]

\* the candidate being processed, and its entry before it is renamed
Cur == filelist[idx]

CurEntry == CHOOSE e \in fs : PathOf(e) = Cur.fullpath

\* the date tags of a file that carry a value of the EXIF form, in the fixed order
MatchingTags(tags) ==
    SelectSeq(date_tags, LAMBDA t : t \in DOMAIN tags /\ exifdate_pattern(tags[t]))

\* no metadata at all, or no date tag with a value of the EXIF form
LacksValidDate(tags) == MatchingTags(tags) = <<>>

\* the entry candidate i of this execution had when it was attempted
CandidateEntry(i) ==
    LET mine == {r \in Logged : r.run = run /\ r.idx = i /\ r.kind = "img" /\ r.ok} IN
    IF mine # {} THEN EntryOf(fs, (CHOOSE r \in mine : TRUE).id)
    ELSE CHOOSE e \in fs : PathOf(e) = filelist[i].fullpath

\* the images of folder d dated V1 that a first directory run renames
SameDateImages(d) ==
    {e \in fs0 : /\ e.dir = d /\ e.kind = "file" /\ e.tags = Orig(V1)
                 /\ LowerExt(e.name) = <<".">> \o jpg /\ ~output_pattern(e.name)}

(***************************************************************************)
(* C1: an image is renamed, inside its own folder, to the first name of    *)
(* T.ext, T_1.ext, T_2.ext, ... (T its file date, ext its extension in     *)
(* lower case) at which no entry exists when os.rename is called; so k     *)
(* images of one folder with the same date and extension, and no name of   *)
(* the sequence taken beforehand, end up as T.ext, ..., T_(k-1).ext.       *)
(***************************************************************************)
C1_FirstFreeName ==
    /\ pc = "rename_img" =>
          LET d == dirname(Cur.fullpath)
              ext == LowerExt(basename(Cur.fullpath))
              n == FirstFreeFrom(fs, d, loc.filedate, 0, ext)
          IN /\ abspath(loc.new_filename) = join(d, SeqName(loc.filedate, n, ext))
             /\ ~exists(fs, loc.new_filename)
    /\ pc = "rename_raw" =>
          /\ LastRename.ok /\ LastRename.kind = "img" /\ LastRename.free
          /\ PathOf(EntryOf(fs, LastRename.id)) = abspath(loc.new_filename)
    /\ (pc = "exit" /\ outcome = "finished" /\ run = 1 /\ failures = 0 /\ mode = "dir") =>
          \A d \in {f.folder : f \in {filelist[i] : i \in 1..Len(filelist)}} :
             LET S == SameDateImages(d)
                 k == Cardinality(S)
             IN (\A m \in 0..(k - 1) : SeqName(T1, m, <<".">> \o jpg) \notin NamesIn(fs0, d))
                => {EntryOf(fs, e.id).name : e \in S}
                      = {SeqName(T1, m, <<".">> \o jpg) : m \in 0..(k - 1)}

\* T.jpg and T_1.jpg were taken and an image was renamed to T_2.jpg
C1_Witness ==
    \E r \in Logged :
       /\ r.kind = "img" /\ r.ok
       /\ r.dst = join(DirP, SeqName(T1, 2, <<".">> \o jpg))
       /\ {SeqName(T1, 0, <<".">> \o jpg), SeqName(T1, 1, <<".">> \o jpg)}
             \subseteq NamesIn(fs0, DirP)

(***************************************************************************)
(* C2: a candidate whose file name already is YYYYMMDD_HHMMSS.ext is left  *)
(* alone, in directory mode and in single-file mode, however its path was  *)
(* written: nothing is renamed for it and it is not recorded as failed.    *)
(***************************************************************************)
C2_CanonicalNameIsNoOp ==
    \A i \in 1..Len(filelist) :
       output_pattern(basename(filelist[i].fullpath)) =>
          /\ \A r \in Logged : ~(r.run = run /\ r.idx = i)
          /\ \A k \in 1..Len(pending) : pending[k] # filelist[i].fullpath
          /\ ~(i = idx /\ pc = "rename_img")

(***************************************************************************)
(* C3 (as stated): image and raw sibling, once both renamed, carry names   *)
(* that differ only in their extension, whatever the folder held.          *)
(***************************************************************************)
C3_SameNameButExtension ==
    \A r \in Logged : \A i \in Logged :
       (r.kind = "raw" /\ r.ok /\ i.kind = "img" /\ i.run = r.run /\ i.idx = r.idx)
          => /\ dirname(r.dst) = dirname(i.dst)
             /\ Stem(basename(r.dst)) = Stem(basename(i.dst))

\* what a step that calls os.rename on a raw file does
C3_RawStep ==
    (pc = "rename_raw" /\ Len(renames') = Len(renames) + 1) =>
       LET r == renames'[Len(renames')]
           i == LastRename
           d == dirname(i.dst)
           rawname == basename(r.src)
           ext == LowerExt(rawname)
           M == FirstFreeFrom(fs, d, loc.filedate, loc.suffix, ext)
       IN /\ r.kind = "raw" /\ i.kind = "img" /\ i.ok
          /\ basename(i.dst) = SeqName(loc.filedate, loc.suffix, LowerExt(basename(i.src)))
          /\ dirname(r.src) = d
          /\ lower(Stem(rawname)) = lower(Stem(basename(i.src)))
          /\ ext \in {<<".">> \o lower(possible_raw_extensions[k]) : k \in 1..2}
          /\ r.dst = join(d, SeqName(loc.filedate, M, ext))
          /\ r.free
          /\ (Stem(basename(r.dst)) = Stem(basename(i.dst)))
                <=> (SeqName(loc.filedate, loc.suffix, ext) \notin NamesIn(fs, d))
          /\ r.ok => PathOf(EntryOf(fs', r.id)) = r.dst

(***************************************************************************)
(* C3 (amended): the raw sibling found for a renamed image is renamed, in  *)
(* the same folder, to the image's date T with the raw file's extension in *)
(* lower case and the least suffix M >= N (N the image's suffix, 0 for     *)
(* none) at which no entry exists when it is renamed; the two names differ *)
(* only in their extension exactly when that is N, i.e. when T[_N].rawext  *)
(* is free.  A rename that succeeds leaves the raw file under that name.   *)
(***************************************************************************)
C3_RawFollowsImageSuffix == [][C3_RawStep]_vars

\* image and raw sibling both renamed with the suffix _1
C3_Witness ==
    \E r \in Logged : \E i \in Logged :
       /\ r.kind = "raw" /\ r.ok /\ i.kind = "img" /\ i.run = r.run /\ i.idx = r.idx
       /\ i.dst = join(DirP, SeqName(T1, 1, <<".">> \o jpg))
       /\ r.dst = join(DirP, SeqName(T1, 1, <<".">> \o orf))

(***************************************************************************)
(* C4: a candidate (not already named YYYYMMDD_HHMMSS.ext) without         *)
(* metadata, or without a date tag whose value has the EXIF form, is not   *)
(* renamed; it is recorded as failed and the run goes on.                  *)
(***************************************************************************)
C4_NoValidDateIsReportedAndSkipped ==
    \A i \in 1..Len(filelist) :
       (i \in {attempts[k] : k \in 1..Len(attempts)}
        /\ ~output_pattern(filelist[i].filename)
        /\ LacksValidDate(CandidateEntry(i).tags))
          => /\ \A r \in Logged : ~(r.run = run /\ r.idx = i)
             /\ ~(i = idx /\ pc = "rename_img")
             /\ ~(i = idx /\ outcome = "crashed")
             /\ i < idx => \E k \in 1..Len(pending) : pending[k] = filelist[i].fullpath

\* the three invalid command lines
InvalidArgument ==
    \/ Len(argv) < 1
    \/ Len(argv) >= 1 /\ ~isdir(fs0, argv[1]) /\ ~isfile(fs0, argv[1])
    \/ Len(argv) >= 1 /\ isfile(fs0, argv[1]) /\ ~image_pattern(argv[1])

(***************************************************************************)
(* C5: with no argument, with an argument that is neither a file nor a     *)
(* directory, or with a file that is not an image, the process exits with  *)
(* a status other than 0 and nothing has been renamed.                     *)
(***************************************************************************)
C5_InvalidArgumentExitsNonZero ==
    (InvalidArgument /\ run = 1) =>
       /\ pc # "confirm" /\ pc # "loop"
       /\ renames = <<>>
       /\ pc = "exit" => ExitStatus(outcome) # 0

(***************************************************************************)
(* C6: once the user has confirmed and there are candidates, every         *)
(* candidate is attempted once, in list order, and the run ends normally,  *)
(* whatever happens to each file.                                          *)
(***************************************************************************)
C6_EveryCandidateAttempted ==
    /\ attempts = [k \in 1..Len(attempts) |-> k]
    /\ (pc = "exit" /\ Len(filelist) > 0) =>
          /\ outcome = "finished"
          /\ Len(attempts) = Len(filelist)

(***************************************************************************)
(* C7: every os.rename targets a path of the source's own folder at which  *)
(* no entry exists; so each folder keeps its number of entries, each       *)
(* initial entry exists under exactly one name, in its folder, with its    *)
(* content, and nothing is created, overwritten or moved elsewhere.        *)
(***************************************************************************)
C7_RenameInPlaceKeepsEverything ==
    /\ \A r \in Logged : r.free /\ dirname(r.dst) = dirname(r.src)
    /\ \A d \in {e.dir : e \in fs0 \cup fs} :
          Cardinality({e \in fs : e.dir = d}) = Cardinality({e \in fs0 : e.dir = d})
    /\ Cardinality(fs) = Cardinality(fs0)
    /\ \A e0 \in fs0 :
          \E e \in fs :
             /\ e.id = e0.id /\ e.kind = e0.kind /\ e.tags = e0.tags /\ e.dir = e0.dir
             /\ \A x \in fs : x.id = e0.id => x = e
    /\ \A e \in fs : \A x \in fs : PathOf(e) = PathOf(x) => e = x

\* an image went to a suffixed name next to an entry that kept the plain one
C7_Witness ==
    /\ pc = "exit"
    /\ \E r \in Logged :
          /\ r.ok /\ r.dst = join(DirP, SeqName(T1, 1, <<".">> \o jpg))
          /\ \E e \in fs0 : PathOf(e) = join(DirP, SeqName(T1, 0, <<".">> \o jpg))
                            /\ e \in fs
    /\ \E r \in Logged : r.ok /\ r.kind = "raw"

(***************************************************************************)
(* C8: the date that names a file is the value of the last tag of          *)
(* date_tags that is present with a value of the EXIF form; a tag present  *)
(* with another value is ignored.                                          *)
(***************************************************************************)
C8_LastMatchingTagNamesTheFile ==
    /\ pc = "rename_img" =>
          LET m == MatchingTags(CurEntry.tags) IN
          m # <<>> => loc.filedate = strptime_strftime(CurEntry.tags[m[Len(m)]]).out
    /\ (outcome = "crashed" /\ isfile(fs, Cur.fullpath)) =>
          LET m == MatchingTags(CurEntry.tags) IN
          m # <<>> => ~strptime_strftime(CurEntry.tags[m[Len(m)]]).ok

(***************************************************************************)
(* C9: a second directory run, on the tree a complete first run left,      *)
(* renames nothing.                                                        *)
(***************************************************************************)
C9_SecondRunRenamesNothing ==
    (Len(argv) >= 1 /\ isdir(fs0, argv[1]) /\ failures = 0) =>
       \A r \in Logged : r.run = 1

\* what a step that calls os.rename does, and which raw file it may take
C10_Step ==
    /\ Len(renames') <= Len(renames) + 1
    /\ (Len(renames') = Len(renames) + 1 /\ renames'[Len(renames')].kind = "raw") =>
          LET r == renames'[Len(renames')]
              i == LastRename
              d == dirname(r.src)
              base == lower(Stem(basename(i.src)))
              siblings(x) == {e \in fs : /\ e.dir = d /\ e.kind = "file"
                                         /\ lower(e.name) = base \o <<".">> \o lower(x)}
          IN /\ renames # <<>>
             /\ i.kind = "img" /\ i.ok /\ i.run = r.run /\ i.idx = r.idx
             /\ ~\E e \in fs' : e.id = i.id /\ PathOf(e) = i.src
             /\ \E e \in fs' : e.id = i.id /\ PathOf(e) = i.dst
             /\ EntryOf(fs, r.id) \in
                   (IF siblings(possible_raw_extensions[1]) # {}
                    THEN siblings(possible_raw_extensions[1])
                    ELSE siblings(possible_raw_extensions[2]))
             /\ \A e \in fs : e.id # r.id /\ e.id # i.id => e \in fs'
    /\ (Len(renames') = Len(renames) + 1 /\ renames'[Len(renames')].kind = "img"
        /\ ~renames'[Len(renames')].ok) => pc' = "loop" /\ idx' = idx + 1

(***************************************************************************)
(* C10: os.rename is called on a raw file only right after the image of    *)
(* the same candidate was renamed, and at most once per candidate: on the  *)
(* first sibling found in the order ORF, RAW.  No raw file has its new     *)
(* name while the image it was found for still has its original one.       *)
(***************************************************************************)
C10_RawOnlyAfterImage == [][C10_Step]_vars

\* the ORF sibling was renamed and the RAW sibling kept its name
C10_Witness ==
    /\ \E r \in Logged : r.kind = "raw" /\ r.ok /\ LowerExt(basename(r.src)) = <<".">> \o orf
    /\ \E e \in fs : e \in fs0 /\ LowerExt(e.name) = <<".", "r", "a", "w">>
    /\ \E r \in Logged : r.kind = "img" /\ ~r.ok

=============================================================================
